---- MODULE Spec2Model ----
\* The Store Catalog of LearnNode-TS: the upload -> resize -> createStore /
\* updateStore request pipeline of StoreController, the tag listing, the file
\* writes of the image pipeline and the persistence layer's slug handling.
EXTENDS Naturals, Integers, Sequences, FiniteSets, Bags, TLC

\* ---------------------------------------------------------------- bounds
MaxStores == 3          \* create requests are refused once the catalog holds this many
MaxFiles == 2           \* uuid.v4() is drawn at most this many times
MaxAttempts == 10       \* retry budget of the slug-collision retry

\* ---------------------------------------------------------------- values
NoValue == "undefined"
Users == {"u1", "u2"}

NoFile == [type |-> "none", subtype |-> "none", decodable |-> FALSE]
PngFile == [type |-> "image", subtype |-> "png", decodable |-> TRUE]
CorruptPng == [type |-> "image", subtype |-> "png", decodable |-> FALSE]
TextFile == [type |-> "text", subtype |-> "plain", decodable |-> FALSE]

\* a photo filename `${uuid.v4()}.${extension}`; NoPhoto is the absent field
NoPhoto == [uuid |-> 0, ext |-> "none"]

NameA == <<"A">>
NameA2 == <<"a", " ", "2">>
NoSlug == <<>>

Body(name, description, address, coordinates, tags, author, slug) ==
    [name |-> name, description |-> description, address |-> address,
     coordinates |-> coordinates, tags |-> tags, author |-> author,
     slug |-> slug, photo |-> NoPhoto]

NoBody == Body(<<>>, "", "", "", {}, NoValue, NoSlug)

NoDoc ==
    [name |-> <<>>, slug |-> NoSlug, description |-> "", address |-> "",
     coordinates |-> "", tags |-> {}, photo |-> NoPhoto, author |-> NoValue]

NoResponse == [tag |-> NoValue, tags |-> {}, stores |-> {}]

\* ---------------------------------------------------------------- workloads
\* What the clients send: the request slots in use and the sets the request
\* inputs are drawn from.  A behaviour keeps one workload throughout.
OwnerBodies ==
    { Body(NameA, "d1", "x1", "c1", {}, NoValue, NoSlug),
      Body(NameA2, "d2", "x2", "c2", {"t1"}, "u2", <<"a">>) }

TagBodies ==
    { Body(NameA, "d1", "d1", "c1", {}, NoValue, NoSlug),
      Body(NameA, "d1", "d1", "c1", {"t1"}, NoValue, NoSlug),
      Body(NameA, "d1", "d1", "c1", {"t1", "t2"}, NoValue, NoSlug) }

RaceBodies ==
    { Body(NameA, "d1", "d1", "c1", {}, NoValue, NoSlug),
      Body(NameA2, "d1", "d1", "c1", {}, NoValue, NoSlug) }

Ids == 1 .. (MaxStores + 1)

Workloads ==
    { [name |-> "owners", reqs |-> {"r1"}, kinds |-> {"add", "update"},
       users |-> Users, bodies |-> OwnerBodies, files |-> {NoFile},
       ids |-> Ids, tagArgs |-> {}, editors |-> {}],
      [name |-> "photos", reqs |-> {"r1"}, kinds |-> {"add", "update"},
       users |-> {"u1"}, bodies |-> {Body(NameA, "d1", "d1", "c1", {}, NoValue, NoSlug)},
       files |-> {NoFile, PngFile, CorruptPng, TextFile},
       ids |-> {1}, tagArgs |-> {}, editors |-> {}],
      [name |-> "tags", reqs |-> {"r1"}, kinds |-> {"add"},
       users |-> {"u1"}, bodies |-> TagBodies, files |-> {NoFile},
       ids |-> {1}, tagArgs |-> {NoValue, "", "t1", "t2"}, editors |-> {}],
      [name |-> "race", reqs |-> {"r1", "r2"}, kinds |-> {"add", "update"},
       users |-> {"u1"}, bodies |-> RaceBodies, files |-> {NoFile},
       ids |-> {1}, tagArgs |-> {}, editors |-> {}],
      [name |-> "editors", reqs |-> {"r1"}, kinds |-> {"add"},
       users |-> Users, bodies |-> {Body(NameA, "d1", "d1", "c1", {}, "u2", NoSlug)},
       files |-> {NoFile}, ids |-> Ids, tagArgs |-> {}, editors |-> Users] }

Reqs == {"r1", "r2"}

VARIABLES workload, catalog, uploads, writing, uuids, req

vars == <<workload, catalog, uploads, writing, uuids, req>>

Idle ==
    [pc |-> "idle", kind |-> NoValue, user |-> NoValue, id |-> 0,
     file |-> NoFile, body |-> NoBody, doc |-> NoDoc, attempts |-> 0,
     outcome |-> NoValue, response |-> NoResponse]

Init ==
    /\ workload \in Workloads
    /\ catalog = <<>>
    /\ uploads = {}
    /\ writing = {}
    /\ uuids = 0
    /\ req = [r \in Reqs |-> Idle]

\* ---------------------------------------------------------------- slugs
Lower(c) == IF c = "A" THEN "a" ELSE c
IsSpace(c) == c = " "
Digits == <<"0", "1", "2", "3", "4", "5", "6", "7", "8", "9">>
IsSlugChar(c) == c \in {"a", "-"} \cup {Digits[i] : i \in 1 .. 10}

RECURSIVE LowerCase(_)
LowerCase(s) == IF s = <<>> THEN <<>> ELSE <<Lower(Head(s))>> \o LowerCase(Tail(s))

\* whitespace runs become one hyphen
RECURSIVE Hyphenate(_)
Hyphenate(s) ==
    IF s = <<>> THEN <<>>
    ELSE IF IsSpace(Head(s))
         THEN IF Len(s) > 1 /\ IsSpace(s[2]) THEN Hyphenate(Tail(s))
              ELSE <<"-">> \o Hyphenate(Tail(s))
         ELSE <<Head(s)>> \o Hyphenate(Tail(s))

RECURSIVE Strip(_)
Strip(s) ==
    IF s = <<>> THEN <<>>
    ELSE IF IsSlugChar(Head(s)) THEN <<Head(s)>> \o Strip(Tail(s))
         ELSE Strip(Tail(s))

RECURSIVE Collapse(_)
Collapse(s) ==
    IF s = <<>> THEN <<>>
    ELSE IF Head(s) = "-" /\ Len(s) > 1 /\ s[2] = "-" THEN Collapse(Tail(s))
         ELSE <<Head(s)>> \o Collapse(Tail(s))

RECURSIVE TrimLeft(_)
TrimLeft(s) == IF s # <<>> /\ Head(s) = "-" THEN TrimLeft(Tail(s)) ELSE s

RECURSIVE TrimRight(_)
TrimRight(s) ==
    IF s # <<>> /\ s[Len(s)] = "-" THEN TrimRight(SubSeq(s, 1, Len(s) - 1)) ELSE s

deriveSlug(name) == TrimRight(TrimLeft(Collapse(Strip(Hyphenate(LowerCase(name))))))

RECURSIVE Decimal(_)
Decimal(n) == IF n < 10 THEN <<Digits[n + 1]>> ELSE Decimal(n \div 10) \o <<Digits[(n % 10) + 1]>>

Suffixed(base, n) == base \o <<"-">> \o Decimal(n)

Slugs(cat) == {cat[i].slug : i \in DOMAIN cat}

\* first integer >= n whose suffixed form is not in use
RECURSIVE FirstFree(_, _, _)
FirstFree(base, n, cat) ==
    IF Suffixed(base, n) \notin Slugs(cat) THEN n ELSE FirstFree(base, n + 1, cat)

\* a slug step that numbers the suffixes from 1
SlugCandidateFromOne(name, cat) ==
    LET base == deriveSlug(name)
    IN  IF base \notin Slugs(cat) THEN base
        ELSE Suffixed(base, FirstFree(base, 1, cat))

\* the slug step of a creation: the candidate, or its first free suffixed form
SlugCandidate(name, cat) ==
    LET base == deriveSlug(name)
    IN  IF base \notin Slugs(cat) THEN base
        ELSE Suffixed(base, FirstFree(base, 2, cat))

\* a persistence layer without the unique index on slug
NoUniqueIndex(slug, cat) == FALSE

\* the persistence layer's uniqueness constraint on slug
UniqueSlugViolated(slug, cat) == slug \in Slugs(cat)

\* ---------------------------------------------------------------- upload
\* a filter that lets every file through
fileFilterAny(file) == TRUE

\* multerOptions.fileFilter: file.mimetype.startsWith("image/")
fileFilter(file) == file.type = "image"

\* request.file.mimetype.split("/")[1]
Extension(file) == file.subtype

Fail(r, error) ==
    req' = [req EXCEPT ![r].pc = "done", ![r].outcome = error]

\* a POST /add or POST /add/:id arrives and multer's upload middleware runs
upload(r) ==
    /\ r \in workload.reqs
    /\ req[r].pc \in {"idle", "done"}
    /\ \E kind \in workload.kinds, user \in workload.users, body \in workload.bodies,
          file \in workload.files, id \in workload.ids :
          LET request == [Idle EXCEPT !.kind = kind, !.user = user, !.body = body,
                                      !.file = file,
                                      !.id = IF kind = "update" THEN id ELSE 0]
          IN  IF file = NoFile \/ fileFilter(file)
              THEN req' = [req EXCEPT ![r] = [request EXCEPT !.pc = "resize"]]
              ELSE req' = [req EXCEPT ![r] = [request EXCEPT !.pc = "done",
                                                             !.outcome = "InvalidMediaType"]]
    /\ UNCHANGED <<workload, catalog, uploads, writing, uuids>>

\* resize: no file -> next(); else name the photo, decode, resize, start the
\* write and call next().  photo.write(path) returns at once: the file is
\* written by a callback that resize does not wait for.
resize(r) ==
    /\ req[r].pc = "resize"
    /\ IF req[r].file = NoFile
       THEN /\ req' = [req EXCEPT ![r].pc = "handler"]
            /\ UNCHANGED <<writing, uuids>>
       ELSE /\ uuids < MaxFiles
            /\ LET photo == [uuid |-> uuids + 1, ext |-> Extension(req[r].file)]
               IN  IF req[r].file.decodable
                   THEN /\ req' = [req EXCEPT ![r].pc = "handler", ![r].body.photo = photo]
                        /\ writing' = writing \cup {photo}
                   ELSE /\ req' = [req EXCEPT ![r].pc = "done", ![r].body.photo = photo,
                                              ![r].outcome = "DecodeError"]
                        /\ UNCHANGED writing
            /\ uuids' = uuids + 1
    /\ UNCHANGED <<workload, catalog, uploads>>

\* the write stream of photo.write finishes
WriteFinish(photo) ==
    /\ photo \in writing
    /\ writing' = writing \ {photo}
    /\ uploads' = uploads \cup {photo}
    /\ UNCHANGED <<workload, catalog, uuids, req>>

\* the write stream of photo.write fails: nobody is listening
WriteError(photo) ==
    /\ photo \in writing
    /\ writing' = writing \ {photo}
    /\ UNCHANGED <<workload, catalog, uploads, uuids, req>>

\* ---------------------------------------------------------------- create
\* new Store(request.body) without the author stamp
NewStoreUnstamped(body, user) ==
    [name |-> body.name, slug |-> body.slug, description |-> body.description,
     address |-> body.address, coordinates |-> body.coordinates,
     tags |-> body.tags, photo |-> body.photo,
     author |-> IF body.author # NoValue THEN body.author ELSE user]

\* new Store(request.body) after request.body.author = request.user._id
NewStore(body, user) ==
    [name |-> body.name, slug |-> body.slug, description |-> body.description,
     address |-> body.address, coordinates |-> body.coordinates,
     tags |-> body.tags, photo |-> body.photo, author |-> user]

\* createStore up to the slug step of store.save()
createStore(r) ==
    /\ req[r].pc = "handler"
    /\ req[r].kind = "add"
    /\ Len(catalog) < MaxStores
    /\ LET store == NewStore(req[r].body, req[r].user)
       IN  req' = [req EXCEPT ![r].pc = "save",
                              ![r].doc = [store EXCEPT !.slug = SlugCandidate(store.name, catalog)]]
    /\ UNCHANGED <<workload, catalog, uploads, writing, uuids>>

\* the write of store.save(): insert, or retry the slug step on a
\* uniqueness-constraint failure until the budget is spent; then the redirect
Save(r) ==
    /\ req[r].pc = "save"
    /\ IF ~UniqueSlugViolated(req[r].doc.slug, catalog)
       THEN /\ catalog' = Append(catalog, req[r].doc)
            /\ req' = [req EXCEPT ![r].pc = "done", ![r].outcome = "redirect"]
       ELSE /\ UNCHANGED catalog
            /\ IF req[r].attempts + 1 >= MaxAttempts
               THEN Fail(r, "PersistenceError")
               ELSE req' = [req EXCEPT ![r].attempts = @ + 1,
                                       ![r].doc.slug = SlugCandidate(req[r].doc.name, catalog)]
    /\ UNCHANGED <<workload, uploads, writing, uuids>>

\* ---------------------------------------------------------------- update
\* Store.findOne({ _id })
findOne(id) == IF id \in DOMAIN catalog THEN id ELSE 0

\* a patch that re-derives the slug from the new name
ApplyPatchReslug(store, body) ==
    [store EXCEPT !.name = body.name, !.description = body.description,
                  !.address = body.description, !.slug = deriveSlug(body.name)]

\* a patch that copies every field the body carries
ApplyPatchAssign(store, body) ==
    [store EXCEPT !.name = body.name, !.description = body.description,
                  !.address = body.description,
                  !.author = IF body.author # NoValue THEN body.author ELSE @]

\* oldStore.name = ...; oldStore.description = ...; oldStore.location.address = ...
ApplyPatch(store, body) ==
    [store EXCEPT !.name = body.name, !.description = body.description,
                  !.address = body.description]

\* the pre-save step of an existing record: the slug is derived at creation
\* only, so it passes through
preSaveExisting(store) == store

updateStore(r) ==
    /\ req[r].pc = "handler"
    /\ req[r].kind = "update"
    /\ LET found == findOne(req[r].id)
       IN  IF found # 0
           THEN /\ catalog' = [catalog EXCEPT
                                ![found] = preSaveExisting(ApplyPatch(catalog[found], req[r].body))]
                /\ req' = [req EXCEPT ![r].pc = "done", ![r].outcome = "redirect"]
           ELSE /\ UNCHANGED catalog
                /\ req' = [req EXCEPT ![r].pc = "done", ![r].outcome = "no response"]
    /\ UNCHANGED <<workload, uploads, writing, uuids>>

\* ---------------------------------------------------------------- edit
\* an ownership check that lets every user through
confirmAnyone(store, user) == TRUE

\* confirmOwner: store.author.equals(user._id), else it throws
confirmOwner(store, user) == store.author = user

\* GET /stores/:id/edit: find the store, confirm the owner, render the form
editStore(r) ==
    /\ r \in workload.reqs
    /\ req[r].pc \in {"idle", "done"}
    /\ \E user \in workload.editors, id \in workload.ids :
          LET request == [Idle EXCEPT !.pc = "done", !.kind = "edit",
                                      !.user = user, !.id = id]
              found == findOne(id)
          IN  IF found = 0
              THEN req' = [req EXCEPT ![r] = [request EXCEPT !.outcome = "no response"]]
              ELSE IF confirmOwner(catalog[found], user)
                   THEN req' = [req EXCEPT ![r] = [request EXCEPT
                                    !.outcome = "render",
                                    !.response = [NoResponse EXCEPT !.stores = {found}]]]
                   ELSE req' = [req EXCEPT ![r] = [request EXCEPT !.outcome = "Forbidden"]]
    /\ UNCHANGED <<workload, catalog, uploads, writing, uuids>>

\* ---------------------------------------------------------------- tags
\* $unwind: "$tags" over the stores ids, as the bag of their tags
RECURSIVE Unwind(_, _)
Unwind(cat, ids) ==
    IF ids = {} THEN EmptyBag
    ELSE LET i == CHOOSE k \in ids : TRUE
         IN  SetToBag(cat[i].tags) (+) Unwind(cat, ids \ {i})

\* $group: { _id: "$tags", count: { $sum: 1 } }
Group(unwound) == {[tag |-> t, count |-> unwound[t]] : t \in BagToSet(unwound)}

\* Store.getTagsList()
getTagsList(cat) == Group(Unwind(cat, DOMAIN cat))

\* Store.find({ tags: tagQuery }), tagQuery = tag || { $exists: true }
find(cat, tag) ==
    IF tag = NoValue \/ tag = ""
    THEN DOMAIN cat
    ELSE {i \in DOMAIN cat : tag \in cat[i].tags}

\* a listing whose counts are taken over the filtered stores
listByTagScoped(cat, tag) ==
    [tag |-> tag, tags |-> Group(Unwind(cat, find(cat, tag))), stores |-> find(cat, tag)]

\* Promise.all([Store.getTagsList(), Store.find({ tags: tagQuery })])
listByTag(cat, tag) ==
    [tag |-> tag, tags |-> getTagsList(cat), stores |-> find(cat, tag)]

getStoresByTag(r) ==
    /\ r \in workload.reqs
    /\ req[r].pc \in {"idle", "done"}
    /\ \E tag \in workload.tagArgs :
          req' = [req EXCEPT ![r] = [Idle EXCEPT !.pc = "done", !.kind = "tags",
                                                 !.outcome = "render",
                                                 !.response = listByTag(catalog, tag)]]
    /\ UNCHANGED <<workload, catalog, uploads, writing, uuids>>

\* ---------------------------------------------------------------- system
Next ==
    \/ \E r \in Reqs : upload(r)
    \/ \E r \in Reqs : resize(r)
    \/ \E photo \in writing : WriteFinish(photo)
    \/ \E photo \in writing : WriteError(photo)
    \/ \E r \in Reqs : createStore(r)
    \/ \E r \in Reqs : Save(r)
    \/ \E r \in Reqs : updateStore(r)
    \/ \E r \in Reqs : getStoresByTag(r)
    \/ \E r \in Reqs : editStore(r)

Spec == Init /\ [][Next]_vars

\* ---------------------------------------------------------------- claims
Done(r, kind) == req[r].pc = "done" /\ req[r].kind = kind

\* the step in which request r leaves its handler
Handled(r, kind) ==
    /\ req[r].pc = "handler"
    /\ req[r].kind = kind
    /\ req'[r].pc = "done"

\* C1: no two store records of the catalog have the same slug, whatever creates
\* and updates (repeated names included) have run.
C1_SlugsUnique ==
    \A i, j \in DOMAIN catalog : i # j => catalog[i].slug # catalog[j].slug

\* two stores of the same name, one of them renamed to it by an update
C1_Witness ==
    /\ \E i, j \in DOMAIN catalog : i # j /\ catalog[i].name = catalog[j].name
    /\ \E r \in Reqs : Done(r, "update") /\ req[r].outcome = "redirect"

C3_NonOwnerUpdateForbidden ==
    [][\A r \in Reqs :
          (Handled(r, "update") /\ req[r].id \in DOMAIN catalog
             /\ catalog[req[r].id].author # req[r].user)
          => (req'[r].outcome = "Forbidden" /\ catalog' = catalog)]_vars

\* C4: a successful update leaves the store's slug and author as they were,
\* whatever the patch carries.
C4_UpdateKeepsSlugAndAuthor ==
    [][\A r \in Reqs :
          (Handled(r, "update") /\ req'[r].outcome = "redirect")
          => /\ req[r].id \in DOMAIN catalog
             /\ catalog'[req[r].id].slug = catalog[req[r].id].slug
             /\ catalog'[req[r].id].author = catalog[req[r].id].author]_vars

\* an update that renamed the store with a patch carrying another slug and author
C4_Witness ==
    \E r \in Reqs :
        /\ Done(r, "update") /\ req[r].outcome = "redirect"
        /\ req[r].body.slug # NoSlug /\ req[r].body.author # NoValue
        /\ catalog[req[r].id].name = req[r].body.name
        /\ catalog[req[r].id].slug # deriveSlug(req[r].body.name)
        /\ catalog[req[r].id].slug # req[r].body.slug
        /\ catalog[req[r].id].author # req[r].body.author

\* C5: a store record carrying a photo filename is persisted only once the
\* resized image is completely written under that filename.
C5_PhotoWrittenBeforePersisted ==
    \A i \in DOMAIN catalog :
        catalog[i].photo # NoPhoto => catalog[i].photo \in uploads

\* C6: an update whose id matches no store fails with NotFound and leaves the
\* catalog as it was.
C6_UnknownIdNotFound ==
    [][\A r \in Reqs :
          (Handled(r, "update") /\ req[r].id \notin DOMAIN catalog)
          => (req'[r].outcome = "NotFound" /\ catalog' = catalog)]_vars

\* C7: after a successful update the record's name, description, address and
\* coordinates are the patch's, photo and tags are the patch's when it supplies
\* them, and every other field is unchanged.
C7_UpdateAppliesPatch ==
    [][\A r \in Reqs :
          (Handled(r, "update") /\ req'[r].outcome = "redirect")
          => LET old == catalog[req[r].id]
                 new == catalog'[req[r].id]
                 patch == req[r].body
             IN  /\ new.name = patch.name
                 /\ new.description = patch.description
                 /\ new.address = patch.address
                 /\ new.coordinates = patch.coordinates
                 /\ new.photo = IF patch.photo # NoPhoto THEN patch.photo ELSE old.photo
                 /\ new.tags = IF patch.tags # {} THEN patch.tags ELSE old.tags
                 /\ new.slug = old.slug
                 /\ new.author = old.author]_vars

\* C8: a created store's author is the acting user, whatever author the payload
\* carries, and no later step changes the author of a store.
C8_AuthorIsActingUser ==
    [][/\ \A r \in Reqs :
             (req[r].pc = "save" /\ req'[r].outcome = "redirect")
             => /\ Len(catalog') = Len(catalog) + 1
                /\ catalog'[Len(catalog')].author = req[r].user
       /\ \A i \in DOMAIN catalog :
             i \in DOMAIN catalog' /\ catalog'[i].author = catalog[i].author]_vars

\* a store was created from a payload naming another user as its author
C8_Witness ==
    \E r \in Reqs :
        /\ Done(r, "add") /\ req[r].outcome = "redirect"
        /\ req[r].body.author # NoValue
        /\ req[r].body.author # req[r].user
        /\ \E i \in DOMAIN catalog : catalog[i] = req[r].doc

\* C9: a request whose attached file is not of type image/ is rejected by the
\* upload step with the invalid-media-type error; resize and the handler never
\* run for it, no file is written and the catalog is untouched.
C9_NonImageRejected ==
    [][\A r \in Reqs :
          (req'[r] # req[r] /\ req'[r].file # NoFile /\ req'[r].file.type # "image")
          => /\ req'[r].pc = "done"
             /\ req'[r].outcome = "InvalidMediaType"
             /\ req'[r].body.photo = NoPhoto
             /\ UNCHANGED <<catalog, uploads, writing, uuids>>]_vars

\* an update request carrying a text file was rejected on a non-empty catalog
C9_Witness ==
    \E r \in Reqs :
        /\ req[r].pc = "done"
        /\ req[r].file = TextFile
        /\ req[r].outcome = "InvalidMediaType"
        /\ req[r].kind = "update"
        /\ catalog # <<>>

\* C10: listByTag returns the catalog-wide tag counts whatever the tag; with a
\* tag the stores are those holding it, with none or "" they are all stores.
C10_TagsCatalogWide ==
    [][\A r \in Reqs :
          (req'[r] # req[r] /\ req'[r].kind = "tags")
          => LET tag == req'[r].response.tag
                 holders(t) == {i \in DOMAIN catalog : t \in catalog[i].tags}
                 inUse == UNION {catalog[i].tags : i \in DOMAIN catalog}
             IN  /\ req'[r].response.tags =
                        {[tag |-> t, count |-> Cardinality(holders(t))] : t \in inUse}
                 /\ req'[r].response.stores =
                        IF tag \in {NoValue, ""} THEN DOMAIN catalog ELSE holders(tag)]_vars

\* a listing by tag that returned fewer stores than one of its counts
C10_Witness ==
    \E r \in Reqs :
        /\ Done(r, "tags")
        /\ req[r].response.tag \notin {NoValue, ""}
        /\ req[r].response.stores # {}
        /\ \E e \in req[r].response.tags : e.count > Cardinality(req[r].response.stores)

\* C11: a created store whose derived candidate is in use gets the candidate
\* followed by "-n", n the first integer >= 2 whose suffixed form is free; a
\* free candidate is taken as it is.  Creating one name again and again so
\* yields base, base-2, base-3, ... in creation order.
C11_FirstFreeSuffix ==
    [][\A r \in Reqs :
          (req[r].pc = "save" /\ req'[r].outcome = "redirect")
          => LET base == deriveSlug(req[r].doc.name)
                 slug == catalog'[Len(catalog')].slug
                 inUse(n) == \E i \in DOMAIN catalog :
                                 catalog[i].slug = base \o <<"-">> \o Decimal(n)
             IN  IF \A i \in DOMAIN catalog : catalog[i].slug # base
                 THEN slug = base
                 ELSE \E n \in 2 .. (Len(catalog) + 2) :
                         /\ slug = base \o <<"-">> \o Decimal(n)
                         /\ ~inUse(n)
                         /\ \A m \in 2 .. (n - 1) : inUse(m)]_vars

\* three stores created one after the other under one name
C11_Witness ==
    /\ workload.reqs = {"r1"}
    /\ Len(catalog) >= 3
    /\ \A i \in 1 .. 3 : catalog[i].name = NameA
    /\ catalog[1].slug = <<"a">>
    /\ catalog[2].slug = <<"a", "-", "2">>
    /\ catalog[3].slug = <<"a", "-", "3">>

\* C12: the edit request renders the form of a store only for the store's
\* author; for any other user the ownership check throws and nothing is
\* rendered; the catalog is the same after the request either way.
C12_EditOnlyByOwner ==
    [][\A r \in Reqs :
          (req'[r] # req[r] /\ req'[r].kind = "edit")
          => LET user == req'[r].user
                 id == req'[r].id
             IN  /\ catalog' = catalog
                 /\ req'[r].outcome = "render"
                       <=> (id \in DOMAIN catalog /\ catalog[id].author = user)
                 /\ (id \in DOMAIN catalog /\ catalog[id].author # user)
                       => (req'[r].outcome = "Forbidden" /\ req'[r].response.stores = {})
                 /\ req'[r].outcome = "render" => req'[r].response.stores = {id}]_vars

\* an edit request by a user who is not the author of the store was refused
C12_Witness ==
    \E r \in Reqs :
        /\ Done(r, "edit")
        /\ req[r].id \in DOMAIN catalog
        /\ catalog[req[r].id].author # req[r].user
        /\ req[r].outcome = "Forbidden"

====
